---- MODULE Spec2Model ----
(***************************************************************************)
(* The SIMD Smith-Waterman graph aligner of vargas (AlignerT, alignment.h) *)
(* as a state machine.  One aligner object aligns one read list against    *)
(* one graph walk; every lane vector is a function over the lane indices   *)
(* and every step of the batch / node / column / row loops of align_into   *)
(* is a step of the machine.                                               *)
(***************************************************************************)
EXTENDS Integers, Sequences, FiniteSets, TLC

(***************************************************************************)
(* Bounds of the model.                                                    *)
(***************************************************************************)
\* lanes of one SIMD vector (simd_t::length, 16 or 32 in a build)
Lanes == 2
\* longest node sequence of the single-node walks
MaxSeqLen == 4
\* longest read list of the batch walks
MaxReads == 3

(***************************************************************************)
(* Number types.                                                           *)
(***************************************************************************)
\* native_t = int8_t: std::numeric_limits<native_t>::min() and ::max()
NativeMin == -128
NativeMax == 127
\* std::numeric_limits<int>::max() and ::min()
IntMax == 2147483647
IntMin == (-2147483647) - 1
\* size_t arithmetic wraps; the model's size_t is 30 bits wide
SizeMod == 1073741824

ToSize(x) == x % SizeMod

\* conversion of an integer to native_t (two's complement truncation)
ToNative(x) == ((x - NativeMin) % (NativeMax - NativeMin + 1)) + NativeMin

\* rg::Base
Base_A == 0
Base_C == 1
Base_G == 2
Base_T == 3
Base_N == 4

LaneIdx == 0 .. (Lanes - 1)

(***************************************************************************)
(* Lane vectors (SIMD<native_t, N>): saturating add and subtract, lanewise *)
(* max, broadcast.                                                         *)
(***************************************************************************)
Sat(x) == IF x > NativeMax THEN NativeMax ELSE IF x < NativeMin THEN NativeMin ELSE x

Splat(x) == [i \in LaneIdx |-> x]

VAdd(a, b) == [i \in LaneIdx |-> Sat(a[i] + b[i])]

VSub(a, b) == [i \in LaneIdx |-> Sat(a[i] - b[i])]

Max2(x, y) == IF x >= y THEN x ELSE y

VMax(a, b) == [i \in LaneIdx |-> Max2(a[i], b[i])]

\* blend(mask, a, b): a where the mask is set, else b
Blend(mask, a, b) == [i \in LaneIdx |-> IF mask[i] THEN a[i] ELSE b[i]]

VEqBase(v, base) == [i \in LaneIdx |-> v[i] = base]

(***************************************************************************)
(* State.                                                                  *)
(***************************************************************************)
VARIABLES
    END_TO_END,          \* template parameter of the aligner
    _read_len,           \* read length the aligner was constructed for
    _prof,               \* ScoreProfile of the aligner
    _bias,
    _vec,                \* the broadcast constants set_scores derives
    read_group,          \* align_into arguments: the reads ...
    targets,             \* ... one target position per read ...
    graph,               \* ... and the nodes begin..end yields, in order
    aligns,              \* the Results record
    _targets_lower, _targets_upper,
    num_groups, group,
    seed_map,            \* node id -> seed
    seed,                \* the incoming seed
    _max_score, _sub_score,
    _target_subrange,
    _packaged_reads,     \* AlignmentGroup: position -> lane vector of bases
    gi,                  \* index of the node of the walk
    _S, _Dc, _Ic, _Sd,
    curr_pos, csp, r, c,
    pc,                  \* position of the driver
    cells,               \* history: every cell written in this batch
    ser_prof,            \* the ScoreProfile to_string is called on
    ser_str,             \* the std::string it returns
    ser_recv,            \* the ScoreProfile from_string is called on
    ser_pc,              \* which of the two calls has returned, or how it failed
    fin_results,         \* the Results finalize is called on
    fin_targets,         \* its argument: one (strand, position) per entry
    fin_pc,              \* whether finalize has returned
    earlier,             \* history: what an earlier align_into of the same arguments wrote
    cl,                  \* the command line bwa_mem is called with
    cl_opts,             \* history: the options the command line was written from
    ret,                 \* the ScoreProfile bwa_mem returns
    cl_pc                \* whether bwa_mem has returned, or how it failed

profVars == <<END_TO_END, _read_len, _prof, _bias, _vec>>
argVars == <<read_group, targets, graph>>
walkVars == <<gi, _S, _Dc, _Ic, _Sd, curr_pos, csp, r, c>>
finVars == <<fin_results, fin_targets, fin_pc>>
clVars == <<cl, cl_opts, ret, cl_pc>>
serVars == <<ser_prof, ser_str, ser_recv, ser_pc, finVars, earlier, clVars>>
vars == <<END_TO_END, _read_len, _prof, _bias, _vec, read_group, targets, graph,
          aligns, _targets_lower, _targets_upper, num_groups, group, seed_map, seed,
          _max_score, _sub_score, _target_subrange, _packaged_reads,
          gi, _S, _Dc, _Ic, _Sd, curr_pos, csp, r, c, pc, cells,
          ser_prof, ser_str, ser_recv, ser_pc, fin_results, fin_targets, fin_pc,
          earlier, cl, cl_opts, ret, cl_pc>>

(***************************************************************************)
(* Scoring: set_scores and _get_bias.                                      *)
(***************************************************************************)
\* _get_bias throws when read_len * match exceeds the range of native_t
BiasThrows_LengthOnly(read_len, match) == read_len > NativeMax - NativeMin

BiasThrows(read_len, match) == read_len * match > NativeMax - NativeMin

\* an end-to-end bias without the headroom of read_len matches
_get_bias_NoHeadroom(ete, read_len, match) ==
    IF ~ete THEN NativeMin ELSE NativeMax

_get_bias(ete, read_len, match) ==
    IF ~ete THEN NativeMin ELSE ToNative(NativeMax - (read_len * match))

set_scores_vec(prof) ==
    [ _match_vec               |-> ToNative(prof.match),
      _mismatch_vec            |-> ToNative(- prof.mismatch),
      _gap_open_extend_vec_rd  |-> ToNative(prof.read_gopen + prof.read_gext),
      _gap_extend_vec_rd       |-> ToNative(prof.read_gext),
      _gap_open_extend_vec_ref |-> ToNative(prof.ref_gopen + prof.ref_gext),
      _gap_extend_vec_ref      |-> ToNative(prof.ref_gext),
      _ambig_vec               |-> ToNative(- prof.ambig) ]

(***************************************************************************)
(* Results.                                                                *)
(***************************************************************************)
ResultFields == {"max_pos", "sub_pos", "max_count", "sub_count",
                 "max_score", "sub_score", "correct", "target_score"}

\* std::vector::resize: kept entries keep their value, new entries are 0
ResizeVec(v, size) == [i \in 0 .. (size - 1) |-> IF i \in DOMAIN v THEN v[i] ELSE 0]

Results_resize(res, size) ==
    [ max_pos      |-> ResizeVec(res.max_pos, size),
      sub_pos      |-> ResizeVec(res.sub_pos, size),
      max_count    |-> ResizeVec(res.max_count, size),
      sub_count    |-> ResizeVec(res.sub_count, size),
      max_score    |-> ResizeVec(res.max_score, size),
      sub_score    |-> ResizeVec(res.sub_score, size),
      correct      |-> ResizeVec(res.correct, size),
      target_score |-> ResizeVec(res.target_score, size),
      profile      |-> res.profile ]

EmptyVec == [i \in {} |-> 0]

\* a default-constructed Results
FreshResults ==
    [ max_pos |-> EmptyVec, sub_pos |-> EmptyVec, max_count |-> EmptyVec,
      sub_count |-> EmptyVec, max_score |-> EmptyVec, sub_score |-> EmptyVec,
      correct |-> EmptyVec, target_score |-> EmptyVec, profile |-> "none" ]

VecSize(v) == Cardinality(DOMAIN v)

(***************************************************************************)
(* Seeds.                                                                  *)
(***************************************************************************)
Rows == 0 .. _read_len

\* _seed_matrix: the seed of the first node
_seed_matrix ==
    LET S == [i \in Rows |->
                 IF END_TO_END /\ i >= 1
                 THEN VSub(VSub(Splat(_bias), Splat(ToNative(_prof.read_gopen))),
                           Splat(ToNative((i - 1) * _prof.read_gext)))
                 ELSE Splat(_bias)]
    IN [S_col |-> S, I_col |-> S]

\* the fold of _get_seed over prev_ids for one row of one column
RECURSIVE SeedFold(_, _, _, _, _)
SeedFold(acc, prev_ids, map, col, i) ==
    IF prev_ids = <<>> THEN acc
    ELSE SeedFold(VMax(acc, map[Head(prev_ids)][col][i]), Tail(prev_ids), map, col, i)

\* _get_seed throws when seed_map.at(id) finds no entry
GetSeedThrows(prev_ids, map) ==
    \E k \in 1 .. Len(prev_ids) : prev_ids[k] \notin DOMAIN map

\* what _get_seed sets a row to before it folds the predecessors in
SeedStart == Splat(_bias)

\* _get_seed: rows 1.._read_len of the incoming seed; row 0 is left alone
_get_seed(prev_ids, map) ==
    [ S_col |-> [i \in Rows |-> IF i = 0 THEN seed.S_col[0]
                                ELSE SeedFold(SeedStart, prev_ids, map, "S_col", i)],
      I_col |-> [i \in Rows |-> IF i = 0 THEN seed.I_col[0]
                                ELSE SeedFold(SeedStart, prev_ids, map, "I_col", i)] ]

\* the entry emplace(id, _read_len) adds: never read before _fill_node writes it
NewSeed == [S_col |-> [i \in Rows |-> Splat(0)], I_col |-> [i \in Rows |-> Splat(0)]]

\* seed_map.emplace(id, _read_len): an existing entry is kept
Emplace(map, id) ==
    IF id \in DOMAIN map THEN map
    ELSE [k \in (DOMAIN map) \cup {id} |-> IF k = id THEN NewSeed ELSE map[k]]

EmptyMap == [k \in {} |-> NewSeed]

\* a walk that clears the store of a pinched node before it merges the seed
MergeSource_AfterClear(n) == IF n.pinched THEN [k \in {} |-> 0] ELSE seed_map

\* the store _get_seed reads: the walk merges before the pinched clear
MergeSource(n) == seed_map

\* the entries the store keeps when the walk reaches node n
KeptEntries(n) == IF n.pinched THEN EmptyMap ELSE seed_map

(***************************************************************************)
(* The score tracker, _fill_cell_finish, for one lane.  t is the lane's    *)
(* tracker state: ms/ss the stored max and sub score, mp/sp their          *)
(* positions, mc/sc their counts, cf the correctness flag.  s is the cell, *)
(* p its position, lo..hi the lane's target window, len the read length.   *)
(***************************************************************************)
\* a window test that forgets the upper bound
InWindow_NoUpper(p, lo, hi) == p >= lo

InWindow(p, lo, hi) == p >= lo /\ p <= hi

\* a tracker whose tie rule raises the flag wherever the tie is
Rule1_FlagAnywhere(t, s, p, lo, hi, len) ==
    IF s = t.ms
    THEN [t EXCEPT !.mc = IF p > t.mp + len THEN @ + 1 ELSE @,
                   !.mp = p,
                   !.cf = 1]
    ELSE t

\* a tracker that keeps the position of the first of the equal cells
Rule1_KeepFirst(t, s, p, lo, hi, len) ==
    IF s = t.ms
    THEN [t EXCEPT !.mc = IF p > t.mp + len THEN @ + 1 ELSE @,
                   !.cf = IF InWindow(p, lo, hi) THEN 1 ELSE @]
    ELSE t

\* equal to the max score
Rule1(t, s, p, lo, hi, len) ==
    IF s = t.ms
    THEN [t EXCEPT !.mc = IF p > t.mp + len THEN @ + 1 ELSE @,
                   !.mp = p,
                   !.cf = IF InWindow(p, lo, hi) THEN 1 ELSE @]
    ELSE t

\* what _sub_score.insert(i, _max_score.at(i)) stores: _max_score was already
\* raised to the cell before the lane loop
DemotedScore(t, s) == Max2(s, t.ms)

\* a tracker that takes a new max only from a cell far from the old one
Rule2_OnlyFar(t, s, p, lo, hi, len) ==
    IF s > t.ms /\ p > t.mp + len
    THEN [t EXCEPT !.ms = s, !.ss = s, !.sp = t.mp, !.sc = t.mc, !.mc = 1, !.mp = p,
                   !.cf = IF InWindow(p, lo, hi) THEN 1 ELSE IF @ = 1 THEN 2 ELSE 0]
    ELSE t

\* a tracker that stores the cell as sub score but leaves the max score
\* behind when it demotes
Rule2_MaxLeftBehind(t, s, p, lo, hi, len) ==
    IF s > t.ms
    THEN LET demote == p > t.mp + len
         IN [t EXCEPT !.ms = IF demote THEN @ ELSE s,
                      !.ss = IF demote THEN s ELSE @,
                      !.sp = IF demote THEN t.mp ELSE @,
                      !.sc = IF demote THEN t.mc ELSE @,
                      !.mc = 1,
                      !.mp = p,
                      !.cf = IF InWindow(p, lo, hi) THEN 1 ELSE 0]
    ELSE t

\* a tracker whose demotion flags 2 without looking at the old flag
Rule2_DemoteFlagsTwo(t, s, p, lo, hi, len) ==
    IF s > t.ms
    THEN LET demote == p > t.mp + len
             cf1 == IF demote THEN 2 ELSE t.cf
         IN [t EXCEPT !.ms = Max2(s, t.ms),
                      !.ss = IF demote THEN DemotedScore(t, s) ELSE @,
                      !.sp = IF demote THEN t.mp ELSE @,
                      !.sc = IF demote THEN t.mc ELSE @,
                      !.mc = 1,
                      !.mp = p,
                      !.cf = IF InWindow(p, lo, hi) THEN 1
                             ELSE IF cf1 = 1 THEN 0 ELSE cf1]
    ELSE t

\* greater than the max score
Rule2(t, s, p, lo, hi, len) ==
    IF s > t.ms
    THEN LET demote == p > t.mp + len
             cf1 == IF demote THEN (IF t.cf = 1 THEN 2 ELSE 0) ELSE t.cf
         IN [t EXCEPT !.ms = Max2(s, t.ms),
                      !.ss = IF demote THEN DemotedScore(t, s) ELSE @,
                      !.sp = IF demote THEN t.mp ELSE @,
                      !.sc = IF demote THEN t.mc ELSE @,
                      !.mc = 1,
                      !.mp = p,
                      !.cf = IF InWindow(p, lo, hi) THEN 1
                             ELSE IF cf1 = 1 THEN 0 ELSE cf1]
    ELSE t

\* equal to the sub score, away from the max position
Rule3(t, s, p, lo, hi, len) ==
    IF s = t.ss /\ p > t.mp + len
    THEN [t EXCEPT !.sc = IF p > t.sp + len THEN @ + 1 ELSE @,
                   !.sp = p,
                   !.cf = IF InWindow(p, lo, hi) THEN 2 ELSE @]
    ELSE t

\* a tracker that takes a second best score next to the max position too
Rule4_Anywhere(t, s, p, lo, hi, len) ==
    IF s > t.ss /\ s < t.ms
    THEN [t EXCEPT !.ss = s,
                   !.sc = 1,
                   !.sp = p,
                   !.cf = IF InWindow(p, lo, hi) THEN 2
                          ELSE IF @ = 1 THEN 1 ELSE 0]
    ELSE t

\* between the sub score and the max score, away from the max position
Rule4(t, s, p, lo, hi, len) ==
    IF s > t.ss /\ s < t.ms /\ p > t.mp + len
    THEN [t EXCEPT !.ss = s,
                   !.sc = 1,
                   !.sp = p,
                   !.cf = IF InWindow(p, lo, hi) THEN 2
                          ELSE IF @ = 1 THEN 1 ELSE 0]
    ELSE t

FinishLane(t, s, p, lo, hi, len) ==
    Rule4(Rule3(Rule2(Rule1(t, s, p, lo, hi, len), s, p, lo, hi, len),
                s, p, lo, hi, len), s, p, lo, hi, len)

beg_offset == group * Lanes

\* a tracker whose lanes all look at the max position of the first lane
LaneState_SharedPos(al, ms, ss, i) ==
    [ ms |-> ms[i], ss |-> ss[i],
      mp |-> al.max_pos[beg_offset], sp |-> al.sub_pos[beg_offset + i],
      mc |-> al.max_count[beg_offset + i], sc |-> al.sub_count[beg_offset + i],
      cf |-> al.correct[beg_offset + i] ]

\* the tracker state of lane i: the lane of _max_score and _sub_score, and
\* the entries the pointers _max_pos, _sub_pos, ... reach at index i
LaneState(al, ms, ss, i) ==
    [ ms |-> ms[i], ss |-> ss[i],
      mp |-> al.max_pos[beg_offset + i], sp |-> al.sub_pos[beg_offset + i],
      mc |-> al.max_count[beg_offset + i], sc |-> al.sub_count[beg_offset + i],
      cf |-> al.correct[beg_offset + i] ]

\* the tracker of every lane after _fill_cell_finish on the vector Srow
Finished(Srow, pos) ==
    [i \in LaneIdx |->
        FinishLane(LaneState(aligns, _max_score, _sub_score, i), Srow[i], pos,
                   _targets_lower[beg_offset + i], _targets_upper[beg_offset + i],
                   _read_len)]

\* a lane of the batch whose entries lie outside the vectors of the Results
OutOfRecord == \E i \in LaneIdx : beg_offset + i \notin DOMAIN aligns.max_pos

\* what a read outside the vectors may find
StrayWords == {0, SizeMod - 1}

\* the tracker after _fill_cell_finish when lanes lie outside the vectors:
\* such a lane reads the word w[i] for its max position
StrayFinished(Srow, pos, w) ==
    [i \in LaneIdx |->
        IF beg_offset + i \in DOMAIN aligns.max_pos
        THEN FinishLane(LaneState(aligns, _max_score, _sub_score, i), Srow[i], pos,
                        _targets_lower[beg_offset + i], _targets_upper[beg_offset + i],
                        _read_len)
        ELSE FinishLane([ms |-> _max_score[i], ss |-> _sub_score[i], mp |-> w[i],
                         sp |-> w[i], mc |-> 0, sc |-> 0, cf |-> 0],
                        Srow[i], pos, w[i], w[i], _read_len)]

InBatch(k) == k >= beg_offset /\ k < beg_offset + Lanes

AlignsAfter(fin) ==
    [aligns EXCEPT
        !.max_pos   = [k \in DOMAIN @ |-> IF InBatch(k) THEN fin[k - beg_offset].mp ELSE @[k]],
        !.sub_pos   = [k \in DOMAIN @ |-> IF InBatch(k) THEN fin[k - beg_offset].sp ELSE @[k]],
        !.max_count = [k \in DOMAIN @ |-> IF InBatch(k) THEN fin[k - beg_offset].mc ELSE @[k]],
        !.sub_count = [k \in DOMAIN @ |-> IF InBatch(k) THEN fin[k - beg_offset].sc ELSE @[k]],
        !.correct   = [k \in DOMAIN @ |-> IF InBatch(k) THEN fin[k - beg_offset].cf ELSE @[k]]]

(***************************************************************************)
(* _fill_cell: one cell of every lane.                                     *)
(***************************************************************************)
\* the term added to the diagonal
MatchTerm(read, ref) ==
    IF ref # Base_N
    THEN Blend(VEqBase(read, Base_N), Splat(_vec._ambig_vec),
               Blend(VEqBase(read, ref), Splat(_vec._match_vec), Splat(_vec._mismatch_vec)))
    ELSE Splat(_vec._ambig_vec)

CellD(row) == VMax(VSub(_Dc[row - 1], Splat(_vec._gap_extend_vec_ref)),
                   VSub(_S[row - 1], Splat(_vec._gap_open_extend_vec_ref)))

CellI(row) == VMax(VSub(_Ic[row], Splat(_vec._gap_extend_vec_rd)),
                   VSub(_S[row], Splat(_vec._gap_open_extend_vec_rd)))

CellS(read, ref, row) ==
    VMax(CellI(row), VMax(CellD(row), VAdd(_Sd, MatchTerm(read, ref))))

(***************************************************************************)
(* Targets.                                                                *)
(***************************************************************************)
SubIdx == 0 .. Lanes

\* std::sort by pos: any order of the entries that is ascending in pos
SortedByPos(arr) ==
    { [j \in SubIdx |-> arr[q[j]]] :
        q \in { p \in Permutations(SubIdx) :
                  \A a, b \in SubIdx : a < b => arr[p[a]].pos <= arr[p[b]].pos } }

\* while (_target_subrange[csp].pos < curr_pos) ++csp
RECURSIVE SkipTargets(_, _)
SkipTargets(k, pos) ==
    IF _target_subrange[k].pos < pos THEN SkipTargets(k + 1, pos) ELSE k

\* a target record that looks at every row in both modes
FirstRow_EveryRow == IF END_TO_END THEN 1 ELSE 1

\* the rows whose cells are recorded and reported
FirstRow == IF END_TO_END THEN _read_len ELSE 1

RECURSIVE ColMax(_, _, _, _)
ColMax(acc, S, q, lane) ==
    IF q > _read_len THEN acc ELSE ColMax(Max2(acc, S[q][lane]), S, q + 1, lane)

\* while (_target_subrange[csp].pos == curr_pos) { record; ++csp }
RECURSIVE RecordTargets(_, _, _, _)
RecordTargets(sub, k, pos, S) ==
    IF sub[k].pos = pos
    THEN RecordTargets([sub EXCEPT ![k].score = ColMax(@, S, FirstRow, sub[k].idx)],
                       k + 1, pos, S)
    ELSE [sub |-> sub, csp |-> k]

(***************************************************************************)
(* The driver, align_into.                                                 *)
(***************************************************************************)
NumReads == VecSize(read_group)

end_offset == IF (group + 1) * Lanes < NumReads THEN (group + 1) * Lanes ELSE NumReads

BatchLen == end_offset - beg_offset

\* a loader that takes the reads of the first batch in every batch
PackageReads_FirstBatch ==
    [p \in 0 .. (_read_len - 1) |->
        [lane \in LaneIdx |->
            IF lane < BatchLen THEN read_group[lane][p + 1] ELSE Base_N]]

\* _package_reads: lane r of position p holds base p of read r; the lanes
\* past the batch hold N
PackageReads ==
    [p \in 0 .. (_read_len - 1) |->
        [lane \in LaneIdx |->
            IF lane < BatchLen THEN read_group[beg_offset + lane][p + 1] ELSE Base_N]]

\* the target subrange of the batch before it is sorted
TargetSubrange ==
    [j \in SubIdx |->
        IF j < BatchLen
        THEN [idx |-> j, pos |-> targets[beg_offset + j], score |-> IntMin]
        ELSE [_target_subrange[j] EXCEPT !.pos = IntMax]]

\* const size_t num_groups = 1 + ((read_group.size() - 1) / read_capacity())
GroupCount(n) == ToSize(1 + (ToSize(n - 1) \div Lanes))

\* the prologue of align_into, up to the batch loop
align_into ==
    /\ pc = "idle"
    /\ UNCHANGED serVars
    /\ LET ng == GroupCount(NumReads)
           size == ToSize(ng * Lanes)
           sized == Results_resize(aligns, size)
           reset == [sized EXCEPT !.correct = [k \in DOMAIN @ |-> 0]]
       IN /\ num_groups' = ng
          /\ _targets_lower' =
                [k \in 0 .. (size - 1) |->
                    IF k < NumReads THEN ToSize(targets[k] - _prof.tol)
                    ELSE IF k \in DOMAIN _targets_lower THEN _targets_lower[k] ELSE 0]
          /\ _targets_upper' =
                [k \in 0 .. (size - 1) |->
                    IF k < NumReads THEN ToSize(targets[k] + _prof.tol)
                    ELSE IF k \in DOMAIN _targets_upper THEN _targets_upper[k] ELSE 0]
          /\ IF ng > 0
             THEN /\ aligns' = reset
                  /\ pc' = "group"
             ELSE \* the batch loop is not entered
                  /\ aligns' = [Results_resize(reset, NumReads) EXCEPT !.profile = _prof]
                  /\ pc' = "done"
    /\ group' = 0
    /\ UNCHANGED <<profVars, argVars, walkVars, seed_map, seed, _max_score, _sub_score,
                   _target_subrange, _packaged_reads, cells>>

\* set_correctness_tolerance, called between construction and align
set_correctness_tolerance(tol) ==
    /\ pc = "idle"
    /\ UNCHANGED serVars
    /\ _prof' = [_prof EXCEPT !.tol = tol]
    /\ UNCHANGED <<END_TO_END, _read_len, _bias, _vec, argVars, walkVars, aligns,
                   _targets_lower, _targets_upper, num_groups, group, seed_map, seed,
                   _max_score, _sub_score, _target_subrange, _packaged_reads, pc, cells>>

\* set_scores(prof): the profile and the broadcast constants are stored
\* before _get_bias runs, so they stay when it throws std::domain_error
set_scores(prof) ==
    /\ pc = "idle"
    /\ UNCHANGED serVars
    /\ _prof' = prof
    /\ _vec' = set_scores_vec(prof)
    /\ IF BiasThrows(_read_len, prof.match)
           THEN /\ pc' = "domain_error"
                /\ UNCHANGED <<_bias, _Dc>>
           ELSE /\ _bias' = _get_bias(END_TO_END, _read_len, prof.match)
                /\ _Dc' = [_Dc EXCEPT ![0] = Splat(_get_bias(END_TO_END, _read_len, prof.match))]
                /\ pc' = "idle"
    /\ UNCHANGED <<END_TO_END, _read_len, argVars, gi, _S, _Ic, _Sd, curr_pos, csp, r, c,
                   aligns, _targets_lower, _targets_upper, num_groups, group, seed_map,
                   seed, _max_score, _sub_score, _target_subrange, _packaged_reads, cells>>

\* the head of the batch loop: load the reads, reset the scores, sort the
\* targets, seed the matrix
StartGroup ==
    /\ pc = "group"
    /\ beg_offset <= NumReads
    /\ UNCHANGED serVars
    /\ seed_map' = EmptyMap
    /\ _packaged_reads' = PackageReads
    /\ _max_score' = Splat(NativeMin)
    /\ _sub_score' = Splat(NativeMin)
    /\ _target_subrange' \in SortedByPos(TargetSubrange)
    /\ seed' = _seed_matrix
    /\ gi' = 1
    /\ cells' = << >>
    /\ pc' = "node"
    /\ UNCHANGED <<profVars, argVars, aligns, _targets_lower, _targets_upper,
                   num_groups, group, _S, _Dc, _Ic, _Sd, curr_pos, csp, r, c>>

\* where the walk goes after node gi
AfterNode == IF gi < Len(graph) THEN "node" ELSE "copy"

\* a filler that takes end_pos for the position its last column reports
NodeStart_EndIsReported(n) == ToSize(n.end_pos - Len(n.seq) + 1)

\* size_t curr_pos = n.end_pos() - seq_size + 2: the position of column 0
NodeStart(n) == ToSize(n.end_pos - Len(n.seq) + 2)

\* a filler that leaves the entry of an empty node as emplace made it
EmptyNodeOut_Fresh(s) == NewSeed

\* _fill_node of a node without bases: nxt = s
EmptyNodeOut(s) == s

\* one node of the walk: _get_seed (not for the first node), the pinched
\* clear, emplace, and the head of _fill_node
EnterNode ==
    /\ pc = "node"
    /\ UNCHANGED serVars
    /\ LET n == graph[gi]
           first == gi = 1
       IN IF ~first /\ GetSeedThrows(n.incoming, MergeSource(n))
          THEN \* std::domain_error("Invalid node ordering.") leaves align_into
               /\ pc' = "error"
               /\ UNCHANGED <<seed_map, seed, gi, _S, _Ic, _Sd, curr_pos, csp, r, c>>
          ELSE LET s == IF first THEN seed ELSE _get_seed(n.incoming, MergeSource(n))
                   kept == IF first THEN seed_map ELSE KeptEntries(n)
                   map == Emplace(kept, n.id)
                   start == NodeStart(n)
               IN /\ seed' = s
                  /\ IF Len(n.seq) = 0
                     THEN \* nxt = s
                          /\ seed_map' = [map EXCEPT ![n.id] = EmptyNodeOut(s)]
                          /\ pc' = AfterNode
                          /\ gi' = IF gi < Len(graph) THEN gi + 1 ELSE gi
                          /\ UNCHANGED <<_S, _Ic, _Sd, curr_pos, csp, r, c>>
                     ELSE /\ seed_map' = map
                          /\ curr_pos' = start
                          /\ csp' = SkipTargets(0, start)
                          /\ _S' = s.S_col
                          /\ _Ic' = s.I_col
                          /\ _Sd' = Splat(_bias)
                          /\ r' = 0
                          /\ c' = 0
                          /\ pc' = "cell"
                          /\ UNCHANGED gi
    /\ _Dc' = _Dc
    /\ UNCHANGED <<profVars, argVars, aligns, _targets_lower, _targets_upper, num_groups,
                   group, _max_score, _sub_score, _target_subrange, _packaged_reads, cells>>

\* one cell: _fill_cell of row r + 1 in column c, its _fill_cell_finish, and
\* after the last row the end of the column; after the last column the end of
\* _fill_node
FillCellStep(fin) ==
    /\ LET n == graph[gi]
           row == r + 1
           ref == n.seq[c + 1]
           read == _packaged_reads[r]
           D == CellD(row)
           I == CellI(row)
           Sv == CellS(read, ref, row)
           S1 == [_S EXCEPT ![row] = Sv]
           lastRow == row = _read_len
           lastCol == c + 1 = Len(n.seq)
           finish == IF END_TO_END THEN lastRow ELSE TRUE
           rec == RecordTargets(_target_subrange, csp, curr_pos, S1)
       IN /\ _Dc' = [_Dc EXCEPT ![row] = D]
          /\ _Ic' = [_Ic EXCEPT ![row] = I]
          /\ _S' = S1
          /\ cells' = Append(cells, [row |-> row, pos |-> curr_pos, S |-> Sv])
          /\ IF finish
             THEN /\ aligns' = AlignsAfter(fin)
                  /\ _max_score' = [i \in LaneIdx |-> fin[i].ms]
                  /\ _sub_score' = [i \in LaneIdx |-> fin[i].ss]
             ELSE UNCHANGED <<aligns, _max_score, _sub_score>>
          /\ IF ~lastRow
             THEN /\ _Sd' = _S[row]
                  /\ r' = r + 1
                  /\ UNCHANGED <<_target_subrange, csp, curr_pos, c, gi, seed_map, pc>>
             ELSE /\ _target_subrange' = rec.sub
                  /\ csp' = rec.csp
                  /\ curr_pos' = ToSize(curr_pos + 1)
                  /\ r' = 0
                  /\ IF ~lastCol
                     THEN /\ _Sd' = Splat(_bias)
                          /\ c' = c + 1
                          /\ UNCHANGED <<gi, seed_map, pc>>
                     ELSE /\ _Sd' = _S[row]
                          /\ c' = c
                          /\ seed_map' = [seed_map EXCEPT ![n.id] =
                                             [S_col |-> S1, I_col |-> [_Ic EXCEPT ![row] = I]]]
                          /\ pc' = AfterNode
                          /\ gi' = IF gi < Len(graph) THEN gi + 1 ELSE gi
    /\ UNCHANGED <<profVars, argVars, _targets_lower, _targets_upper, num_groups, group,
                   seed, _packaged_reads>>

\* the vector _fill_cell writes to _S[r + 1]
CellNow == CellS(_packaged_reads[r], graph[gi].seq[c + 1], r + 1)

\* _fill_cell_finish runs for this cell
FinishesCell == IF END_TO_END THEN r + 1 = _read_len ELSE TRUE

FillCell ==
    /\ pc = "cell"
    /\ UNCHANGED serVars
    /\ IF FinishesCell /\ OutOfRecord
       THEN \* _max_pos[i], _sub_pos[i], ... are outside the vectors
            \/ /\ pc' = "trap"
               /\ UNCHANGED <<profVars, argVars, walkVars, aligns, _targets_lower,
                              _targets_upper, num_groups, group, seed_map, seed, _max_score,
                              _sub_score, _target_subrange, _packaged_reads, cells>>
            \/ \E w \in [LaneIdx -> StrayWords] :
                  FillCellStep(StrayFinished(CellNow, curr_pos, w))
       ELSE FillCellStep(Finished(CellNow, curr_pos))

\* the batch loop when the batch starts past the end of the read list:
\* len = end_offset - beg_offset wraps, assert(len <= read_capacity()) fails;
\* without the assert load_reads copies the range from begin + beg_offset
\* back to begin + end_offset
BatchPastEnd ==
    /\ pc = "group"
    /\ beg_offset > NumReads
    /\ pc' \in {"abort", "trap"}
    /\ UNCHANGED serVars
    /\ UNCHANGED <<profVars, argVars, walkVars, aligns, _targets_lower, _targets_upper,
                   num_groups, group, seed_map, seed, _max_score, _sub_score,
                   _target_subrange, _packaged_reads, cells>>

\* int(score) - _bias in int arithmetic: below INT_MIN it overflows
Overflows(score) == _bias > 0 /\ score < IntMin + _bias

IntSubBias(score) ==
    IF Overflows(score) THEN (score - IntMin) + (IntMax - _bias) + 1 ELSE score - _bias

\* the tail of the batch loop ("Copy scores") and, after the last batch, the
\* crop of the results
CopyScores ==
    /\ pc = "copy"
    /\ UNCHANGED serVars
    /\ LET copied ==
              [aligns EXCEPT
                 !.max_score = [k \in DOMAIN @ |->
                     IF k >= beg_offset /\ k < end_offset
                     THEN _max_score[k - beg_offset] - _bias ELSE @[k]],
                 !.sub_score = [k \in DOMAIN @ |->
                     IF k >= beg_offset /\ k < end_offset
                     THEN _sub_score[k - beg_offset] - _bias ELSE @[k]],
                 !.target_score = [k \in DOMAIN @ |->
                     IF \E i \in 0 .. (BatchLen - 1) : beg_offset + _target_subrange[i].idx = k
                     THEN LET i == CHOOSE j \in 0 .. (BatchLen - 1) :
                                       beg_offset + _target_subrange[j].idx = k
                          IN IntSubBias(_target_subrange[i].score)
                     ELSE @[k]]]
           overflow == \E i \in 0 .. (BatchLen - 1) : Overflows(_target_subrange[i].score)
       IN \E outcome \in (IF overflow THEN {"wraps", "traps"} ELSE {"defined"}) :
             IF outcome = "traps"
             THEN /\ pc' = "trap"
                  /\ UNCHANGED <<aligns, group>>
             ELSE /\ group' = group + 1
                  /\ IF group + 1 < num_groups
                     THEN /\ aligns' = copied
                          /\ pc' = "group"
                     ELSE /\ aligns' = [Results_resize(copied, NumReads) EXCEPT !.profile = _prof]
                          /\ pc' = "done"
    /\ UNCHANGED <<profVars, argVars, walkVars, _targets_lower, _targets_upper, num_groups,
                   seed_map, seed, _max_score, _sub_score, _target_subrange,
                   _packaged_reads, cells>>

(***************************************************************************)
(* Inputs: the aligner's construction and the arguments of align_into.     *)
(***************************************************************************)
Profile(match, mismatch, gopen, gext, ambig) ==
    [ match |-> match, mismatch |-> mismatch, read_gopen |-> gopen, read_gext |-> gext,
      ref_gopen |-> gopen, ref_gext |-> gext, ambig |-> ambig, tol |-> 0 ]

ProfileSet == { Profile(2, 2, 3, 1, 1) }

ReadLens == {1, 2}

ReadBases == {Base_A, Base_C, Base_N}

RefBases == {Base_A, Base_C}

TargetSet == {0, 1, 3}

TolSet == {0, 2}

SeqsOver(B, n) == [1 .. n -> B]

SeqsUpTo(B, n) == UNION { SeqsOver(B, k) : k \in 1 .. n }

\* a vector indexed from 0 holding the entries of a sequence
Vec(sq) == [k \in 0 .. (Len(sq) - 1) |-> sq[k + 1]]

Node(id, sq, end_pos, incoming, pinched) ==
    [id |-> id, seq |-> sq, end_pos |-> end_pos, incoming |-> incoming, pinched |-> pinched]

\* a graph of one node whose first base is at position 1
OneNode(sq) == << Node(0, sq, Len(sq) - 1, << >>, FALSE) >>

\* s0, then a deletion branch (an empty node) beside the branch sy, then sm
Deletion(s0, sy, sm) ==
    << Node(0, s0, Len(s0) - 1, << >>, FALSE),
       Node(1, sy, Len(s0) + Len(sy) - 1, <<0>>, FALSE),
       Node(2, << >>, Len(s0) + Len(sy) - 1, <<0>>, FALSE),
       Node(3, sm, Len(s0) + Len(sy) + Len(sm) - 1, <<1, 2>>, TRUE) >>

LaneGraphs ==
    { OneNode(sq) : sq \in SeqsUpTo(RefBases, MaxSeqLen) }
    \cup { Deletion(s0, sy, sm) : s0 \in SeqsOver(RefBases, 1),
                                  sy \in SeqsOver({Base_N, Base_A}, 2),
                                  sm \in SeqsOver(RefBases, 1) }

\* Results::finalize is not called
NotFinalizing == fin_results = "none" /\ fin_targets = << >> /\ fin_pc = "none"

\* align_into has not been called before
NoEarlierCall == earlier = [results |-> "none", record |-> "none", graph |-> << >>]

\* bwa_mem is not called
NoCommandLine == cl = << >> /\ cl_opts = "none" /\ ret = "none" /\ cl_pc = "none"

\* no profile is being written or parsed
NoProfileString ==
    /\ ser_prof = "none" /\ ser_str = << >> /\ ser_recv = "none" /\ ser_pc = "none"
    /\ NotFinalizing
    /\ NoEarlierCall
    /\ NoCommandLine

\* the state a constructed aligner and a fresh Results are in
Constructed(ete, len, prof) ==
    /\ END_TO_END = ete
    /\ _read_len = len
    /\ ~BiasThrows(len, prof.match)
    /\ _prof = [prof EXCEPT !.tol = len \div 4]
    /\ _bias = _get_bias(ete, len, prof.match)
    /\ _vec = set_scores_vec(prof)
    /\ aligns = FreshResults
    /\ _targets_lower = EmptyVec
    /\ _targets_upper = EmptyVec
    /\ num_groups = 0
    /\ group = 0
    /\ seed_map = [k \in {} |-> 0]
    /\ seed = [S_col |-> [i \in 0 .. len |-> Splat(0)], I_col |-> [i \in 0 .. len |-> Splat(0)]]
    /\ _max_score = Splat(0)
    /\ _sub_score = Splat(0)
    /\ _target_subrange = [j \in SubIdx |-> [idx |-> 0, pos |-> 0, score |-> 0]]
    /\ _packaged_reads = [p \in 0 .. (len - 1) |-> Splat(0)]
    /\ gi = 1
    /\ _S = [i \in 0 .. len |-> Splat(0)]
    /\ _Dc = [i \in 0 .. len |-> IF i = 0 THEN Splat(_get_bias(ete, len, prof.match)) ELSE Splat(0)]
    /\ _Ic = [i \in 0 .. len |-> Splat(0)]
    /\ _Sd = Splat(0)
    /\ curr_pos = 0
    /\ csp = 0
    /\ r = 0
    /\ c = 0
    /\ pc = "idle"
    /\ cells = << >>

\* one read with one target, against the single-node and deletion graphs
Init ==
    \E ete \in BOOLEAN, len \in ReadLens, prof \in ProfileSet :
        /\ Constructed(ete, len, prof)
        /\ NoProfileString
        /\ read_group \in { Vec(<<rd>>) : rd \in SeqsOver(ReadBases, len) }
        /\ targets \in { Vec(<<t>>) : t \in TargetSet }
        /\ graph \in LaneGraphs

Next ==
    \/ \E tol \in TolSet : set_correctness_tolerance(tol)
    \/ align_into
    \/ StartGroup
    \/ EnterNode
    \/ FillCell
    \/ CopyScores

Spec == Init /\ [][Next]_vars

\* three-node walks whose predecessor lists and pinched flags are free: in
\* order or not, with an empty node or not.  Node k ends at the position the
\* bases of nodes 0..k reach.
Walk3(s0, s1, s2, in0, in1, in2, p1, p2) ==
    << Node(0, s0, Len(s0) - 1, in0, FALSE),
       Node(1, s1, Len(s0) + Len(s1) - 1, in1, p1),
       Node(2, s2, Len(s0) + Len(s1) + Len(s2) - 1, in2, p2) >>

WalkGraphs ==
    { Walk3(s0, s1, s2, in0, in1, in2, p1, p2) :
        s0 \in SeqsOver(RefBases, 1),
        s1 \in SeqsOver(RefBases, 1) \cup { << >> },
        s2 \in SeqsOver({Base_A}, 1),
        in0 \in { << >>, <<1>> },
        in1 \in { << >>, <<0>>, <<2>> },
        in2 \in { <<0>>, <<1>>, <<0, 1>> },
        p1 \in BOOLEAN, p2 \in BOOLEAN }

\* one read without a target, against the three-node walks
InitG ==
    \E ete \in BOOLEAN, len \in ReadLens, prof \in ProfileSet :
        /\ Constructed(ete, len, prof)
        /\ NoProfileString
        /\ read_group \in { Vec(<<rd>>) : rd \in SeqsOver(RefBases, len) }
        /\ targets = Vec(<<0>>)
        /\ graph \in WalkGraphs

SpecG == InitG /\ [][Next]_vars

\* the reads of the batch runs: every read over A and C of length 1, two
\* reads of each greater length
BatchReads(len) ==
    IF len = 1 THEN SeqsOver(RefBases, 1)
    ELSE { [k \in 1 .. len |-> IF k = 1 THEN Base_A ELSE Base_C],
           [k \in 1 .. len |-> IF k = 1 THEN Base_C ELSE Base_A] }

BatchTargets == {0, 3}

BatchGraphs ==
    { OneNode(sq) : sq \in SeqsOver(RefBases, MaxSeqLen - 1) }
    \cup { Deletion(<<Base_C>>, <<Base_A, Base_A>>, <<Base_A>>) }

\* one to MaxReads reads: with more than Lanes reads the call takes batches
InitB ==
    \E ete \in BOOLEAN, len \in ReadLens, prof \in ProfileSet, n \in 1 .. MaxReads :
        /\ Constructed(ete, len, prof)
        /\ NoProfileString
        /\ read_group \in [0 .. (n - 1) -> BatchReads(len)]
        /\ targets \in [0 .. (n - 1) -> BatchTargets]
        /\ graph \in BatchGraphs

SpecB == InitB /\ [][Next]_vars

\* two to MaxReads reads whose targets all lie on the graph
CoveredTargets == {2, 3}

InitT ==
    \E ete \in BOOLEAN, len \in ReadLens, prof \in ProfileSet, n \in 2 .. MaxReads :
        /\ Constructed(ete, len, prof)
        /\ NoProfileString
        /\ read_group \in [0 .. (n - 1) -> BatchReads(len)]
        /\ targets \in [0 .. (n - 1) -> CoveredTargets]
        /\ graph \in BatchGraphs

SpecT == InitT /\ [][Next]_vars

\* tolerances over the whole range of size_t: none, a few bases, the largest
WideTolSet == {0, 2, SizeMod - 1}

\* one read without a target (target 0), as align without targets passes it
InitZ ==
    \E ete \in BOOLEAN, len \in ReadLens, prof \in ProfileSet :
        /\ Constructed(ete, len, prof)
        /\ NoProfileString
        /\ read_group \in { Vec(<<rd>>) : rd \in SeqsOver(ReadBases, len) }
        /\ targets = Vec(<<0>>)
        /\ graph \in LaneGraphs

NextZ ==
    \/ \E tol \in WideTolSet : set_correctness_tolerance(tol)
    \/ align_into
    \/ StartGroup
    \/ EnterNode
    \/ FillCell
    \/ CopyScores

SpecZ == InitZ /\ [][NextZ]_vars

\* the default scoring scheme, and one whose mismatch penalty is beyond the
\* positive range of the lane type
WideProfileSet == ProfileSet \cup { Profile(2, 200, 3, 1, 1) }

\* one read without a target under those schemes
InitW ==
    \E ete \in BOOLEAN, len \in ReadLens, prof \in WideProfileSet :
        /\ Constructed(ete, len, prof)
        /\ NoProfileString
        /\ read_group \in { Vec(<<rd>>) : rd \in SeqsOver(ReadBases, len) }
        /\ targets = Vec(<<0>>)
        /\ graph \in LaneGraphs

SpecW == InitW /\ [][Next]_vars

\* read lengths and scoring schemes on both sides of the 8-bit range
ScoreLens == {2, 100}

ScoreProfiles ==
    { Profile(match, mismatch, gopen, gext, 1) :
        match \in {1, 2, 3}, mismatch \in {2, 4, 200}, gopen \in {2, 3}, gext \in {1, 2} }

\* an aligner of either mode, before any read is given to it
InitS ==
    \E ete \in BOOLEAN, len \in ScoreLens, prof \in ScoreProfiles :
        /\ Constructed(ete, len, prof)
        /\ NoProfileString
        /\ read_group = Vec(<< >>)
        /\ targets = Vec(<< >>)
        /\ graph = << >>

NextS ==
    \/ \E prof \in ScoreProfiles : set_scores(prof)
    \/ \E tol \in TolSet : set_correctness_tolerance(tol)

SpecS == InitS /\ [][NextS]_vars

(***************************************************************************)
(* ScoreProfile::to_string and ScoreProfile::from_string.  A string is a   *)
(* sequence of characters.  The eight-bit fields are numbers; tol is a     *)
(* size_t, whose values exceed the integers at hand, and is kept as its    *)
(* decimal numeral: the sequence of its digits, without leading zeros.     *)
(***************************************************************************)
DigitChars == <<"0", "1", "2", "3", "4", "5", "6", "7", "8", "9">>

Uint8Mod == 256

\* the decimal numeral of a natural number
RECURSIVE Numeral(_)
Numeral(n) == IF n < 10 THEN <<n>> ELSE Append(Numeral(n \div 10), n % 10)

\* operator<< of a numeral: one character per digit
PutNumeral(ds) == [k \in 1 .. Len(ds) |-> DigitChars[ds[k] + 1]]

\* operator<< of (int) field
PutInt(n) == PutNumeral(Numeral(n))

\* operator<< of a bool without boolalpha
PutBool(b) == IF b THEN <<"1">> ELSE <<"0">>

to_string(p) ==
    <<"M", "=">> \o PutInt(p.match)
    \o <<",", "M", "M", "=">> \o PutInt(p.mismatch)
    \o <<",", "G", "O", "D", "=">> \o PutInt(p.read_gopen)
    \o <<",", "G", "E", "D", "=">> \o PutInt(p.read_gext)
    \o <<",", "G", "O", "F", "=">> \o PutInt(p.ref_gopen)
    \o <<",", "G", "E", "F", "=">> \o PutInt(p.ref_gext)
    \o <<",", "A", "M", "B", "=">> \o PutInt(p.ambig)
    \o <<",", "E", "T", "E", "=">> \o PutBool(p.end_to_end)
    \o <<",", "T", "O", "L", "=">> \o PutNumeral(p.tol)

\* s.erase(remove_if(.., isspace), ..)
RemoveSpaces(s) == SelectSeq(s, LAMBDA ch : ch \notin {" ", "\t", "\n"})

\* rg::split: the stretches of s between the delimiter, empty ones dropped
RECURSIVE SplitFrom(_, _, _, _)
SplitFrom(s, delim, k, tok) ==
    IF k > Len(s) THEN (IF tok = << >> THEN << >> ELSE <<tok>>)
    ELSE IF s[k] = delim
         THEN (IF tok = << >> THEN << >> ELSE <<tok>>) \o SplitFrom(s, delim, k + 1, << >>)
         ELSE SplitFrom(s, delim, k + 1, Append(tok, s[k]))

split(s, delim) == SplitFrom(s, delim, 1, << >>)

DigitOf(ch) == CHOOSE d \in 0 .. 9 : DigitChars[d + 1] = ch

IsDigit(ch) == \E d \in 0 .. 9 : DigitChars[d + 1] = ch

\* the digits a string begins with
RECURSIVE LeadingDigits(_)
LeadingDigits(v) ==
    IF v = << >> \/ ~IsDigit(v[1]) THEN << >>
    ELSE <<DigitOf(v[1])>> \o LeadingDigits(Tail(v))

RECURSIVE StripZeros(_)
StripZeros(ds) == IF Len(ds) > 1 /\ ds[1] = 0 THEN StripZeros(Tail(ds)) ELSE ds

\* a <= b for numerals without leading zeros
RECURSIVE NumeralLeq(_, _)
NumeralLeq(a, b) ==
    IF Len(a) # Len(b) THEN Len(a) < Len(b)
    ELSE IF a = << >> THEN TRUE
    ELSE IF a[1] # b[1] THEN a[1] < b[1]
    ELSE NumeralLeq(Tail(a), Tail(b))

RECURSIVE NumeralValue(_, _)
NumeralValue(ds, acc) ==
    IF ds = << >> THEN acc ELSE NumeralValue(Tail(ds), acc * 10 + ds[1])

\* std::stoi: the int the leading digits denote; std::out_of_range when
\* they denote more than INT_MAX, std::invalid_argument without a digit
stoi(v) ==
    LET ds == StripZeros(LeadingDigits(v))
    IN IF LeadingDigits(v) = << >> THEN [err |-> "invalid_argument"]
       ELSE IF ~NumeralLeq(ds, Numeral(IntMax)) THEN [err |-> "out_of_range"]
       ELSE [err |-> "none", digits |-> Numeral(NumeralValue(ds, 0))]

\* the int stoi returned, stored in an eight-bit field
AsUint8(ds) == NumeralValue(ds, 0) % Uint8Mod

\* one token of from_string, applied to the profile p
ParseToken(p, tk) ==
    LET pr == split(tk, "=")
    IN IF Len(pr) # 2 THEN [err |-> "invalid_argument", prof |-> p]
       ELSE LET k == pr[1]
                v == pr[2]
                n == stoi(v)
                field(name) == IF n.err # "none" THEN [err |-> n.err, prof |-> p]
                               ELSE [err |-> "none",
                                     prof |-> [p EXCEPT ![name] = AsUint8(n.digits)]]
            IN CASE k = <<"M">> -> field("match")
                 [] k = <<"M", "M">> -> field("mismatch")
                 [] k = <<"G", "O", "D">> -> field("read_gopen")
                 [] k = <<"G", "E", "D">> -> field("read_gext")
                 [] k = <<"G", "O", "F">> -> field("ref_gopen")
                 [] k = <<"G", "E", "F">> -> field("ref_gext")
                 [] k = <<"E", "T", "E">> ->
                        [err |-> "none", prof |-> [p EXCEPT !.end_to_end = (v = <<"1">>)]]
                 [] k = <<"T", "O", "L">> ->
                        IF n.err # "none" THEN [err |-> n.err, prof |-> p]
                        ELSE [err |-> "none", prof |-> [p EXCEPT !.tol = n.digits]]
                 [] k = <<"A", "M", "B">> -> field("ambig")
                 [] OTHER -> [err |-> "none", prof |-> p]

\* the loop of from_string over the tokens: a throw leaves the fields of the
\* earlier tokens assigned
RECURSIVE ParseTokens(_, _)
ParseTokens(p, tks) ==
    IF tks = << >> THEN [err |-> "none", prof |-> p]
    ELSE LET one == ParseToken(p, Head(tks))
         IN IF one.err # "none" THEN one ELSE ParseTokens(one.prof, Tail(tks))

from_string(p, s) == ParseTokens(p, split(RemoveSpaces(s), ","))

\* ser_str = ser_prof.to_string()
CallToString ==
    /\ ser_pc = "built"
    /\ ser_str' = to_string(ser_prof)
    /\ ser_pc' = "written"
    /\ UNCHANGED <<ser_prof, ser_recv>>
    /\ UNCHANGED <<finVars, earlier, clVars>>
    /\ UNCHANGED <<profVars, argVars, walkVars, aligns, _targets_lower, _targets_upper,
                   num_groups, group, seed_map, seed, _max_score, _sub_score,
                   _target_subrange, _packaged_reads, pc, cells>>

\* ser_recv.from_string(ser_str)
CallFromString ==
    /\ ser_pc = "written"
    /\ LET res == from_string(ser_recv, ser_str)
       IN /\ ser_recv' = res.prof
          /\ ser_pc' = IF res.err = "none" THEN "parsed" ELSE res.err
    /\ UNCHANGED <<ser_prof, ser_str>>
    /\ UNCHANGED <<finVars, earlier, clVars>>
    /\ UNCHANGED <<profVars, argVars, walkVars, aligns, _targets_lower, _targets_upper,
                   num_groups, group, seed_map, seed, _max_score, _sub_score,
                   _target_subrange, _packaged_reads, pc, cells>>

SerialProfile(match, mismatch, rd_gopen, rd_gext, ref_gopen, ref_gext, ambig, ete, tol) ==
    [ match |-> match, mismatch |-> mismatch, read_gopen |-> rd_gopen, read_gext |-> rd_gext,
      ref_gopen |-> ref_gopen, ref_gext |-> ref_gext, ambig |-> ambig,
      end_to_end |-> ete, tol |-> tol ]

\* tolerances up to and beyond INT_MAX = 2147483647
TolNumerals ==
    { Numeral(0), Numeral(5), Numeral(IntMax),
      <<2, 1, 4, 7, 4, 8, 3, 6, 4, 8>>,
      <<1, 8, 4, 4, 6, 7, 4, 4, 0, 7, 3, 7, 0, 9, 5, 5, 1, 6, 1, 5>> }

SerialProfiles ==
    { SerialProfile(match, mismatch, rgo, 1, 3, fge, ambig, ete, tol) :
        match \in {0, 2, 255}, mismatch \in {2, 10}, rgo \in {3, 100}, fge \in {1, 2},
        ambig \in {0, 1}, ete \in BOOLEAN, tol \in TolNumerals }

\* what the receiving profile holds before: the defaults, or other values
ReceivingProfiles ==
    { SerialProfile(2, 2, 3, 1, 3, 1, 0, FALSE, Numeral(5)),
      SerialProfile(7, 7, 7, 7, 7, 7, 7, TRUE, Numeral(77)) }

InitP ==
    /\ Constructed(FALSE, 1, Profile(2, 2, 3, 1, 1))
    /\ read_group = Vec(<< >>)
    /\ targets = Vec(<< >>)
    /\ graph = << >>
    /\ ser_prof \in SerialProfiles
    /\ ser_recv \in ReceivingProfiles
    /\ ser_str = << >>
    /\ ser_pc = "built"
    /\ NotFinalizing
    /\ NoEarlierCall
    /\ NoCommandLine

NextP == CallToString \/ CallFromString

SpecP == InitP /\ [][NextP]_vars

(***************************************************************************)
(* Results::finalize.  max_pos and sub_pos are size_t (the aligner writes  *)
(* them through size_t pointers), so max_pos - tol and max_pos + tol are   *)
(* computed in size_t.                                                     *)
(***************************************************************************)
FinalizeFlag(res, tgt, i) ==
    IF tgt[i].pos = 0 THEN 0
    ELSE IF /\ tgt[i].pos >= ToSize(res.max_pos[i] - res.tol)
            /\ tgt[i].pos <= ToSize(res.max_pos[i] + res.tol)
            /\ tgt[i].strand = res.max_strand[i]
         THEN 1
    ELSE IF /\ tgt[i].pos >= ToSize(res.sub_pos[i] - res.tol)
            /\ tgt[i].pos <= ToSize(res.sub_pos[i] + res.tol)
            /\ tgt[i].strand = res.sub_strand[i]
         THEN 2
    ELSE 0

\* fin_results.finalize(fin_targets)
finalize ==
    /\ fin_pc = "built"
    /\ fin_results' = [fin_results EXCEPT
                          !.correct = [i \in DOMAIN @ |->
                                          FinalizeFlag(fin_results, fin_targets, i)]]
    /\ fin_pc' = "finalized"
    /\ UNCHANGED <<fin_targets, ser_prof, ser_str, ser_recv, ser_pc, earlier, clVars>>
    /\ UNCHANGED <<profVars, argVars, walkVars, aligns, _targets_lower, _targets_upper,
                   num_groups, group, seed_map, seed, _max_score, _sub_score,
                   _target_subrange, _packaged_reads, pc, cells>>

\* graphs of an earlier align_into into the same Results
EarlierGraphs == { OneNode([k \in 1 .. MaxSeqLen |-> b]) : b \in RefBases }

\* The caller of align_into, after it returned, aligns with the same aligner
\* once more.  "fresh": the same arguments into a default-constructed
\* Results.  "other": another graph into the Results the call filled;
\* "reused": after that, the first arguments into that Results again.
align_again(record) ==
    /\ pc = "done"
    /\ \/ /\ earlier.record = "none"
          /\ record = "fresh"
          /\ earlier' = [results |-> aligns, record |-> record, graph |-> graph]
          /\ aligns' = FreshResults
          /\ UNCHANGED graph
       \/ /\ earlier.record = "none"
          /\ record = "other"
          /\ earlier' = [results |-> aligns, record |-> record, graph |-> graph]
          /\ graph' \in EarlierGraphs
          /\ UNCHANGED aligns
       \/ /\ earlier.record = "other"
          /\ record = "reused"
          /\ earlier' = [earlier EXCEPT !.record = record]
          /\ graph' = earlier.graph
          /\ UNCHANGED aligns
    /\ cells' = << >>
    /\ pc' = "idle"
    /\ UNCHANGED <<ser_prof, ser_str, ser_recv, ser_pc, finVars, clVars>>
    /\ UNCHANGED <<profVars, read_group, targets, walkVars, _targets_lower, _targets_upper,
                   num_groups, group, seed_map, seed, _max_score, _sub_score,
                   _target_subrange, _packaged_reads>>

NextR ==
    \/ align_into
    \/ StartGroup
    \/ EnterNode
    \/ FillCell
    \/ CopyScores
    \/ \E record \in {"fresh", "other", "reused"} : align_again(record)

SpecR == Init /\ [][NextR]_vars

\* align_into of an empty read list and an empty target list
InitE ==
    \E ete \in BOOLEAN, len \in ReadLens, prof \in ProfileSet :
        /\ Constructed(ete, len, prof)
        /\ NoProfileString
        /\ read_group = Vec(<< >>)
        /\ targets = Vec(<< >>)
        /\ graph \in LaneGraphs

NextE ==
    \/ align_into
    \/ StartGroup
    \/ EnterNode
    \/ FillCell
    \/ CopyScores
    \/ BatchPastEnd

SpecE == InitE /\ [][NextE]_vars

(***************************************************************************)
(* bwa_mem: the ScoreProfile of a bwa mem command line.                    *)
(***************************************************************************)
\* std::unique with a == b && a == '-': a run of '-' becomes one '-'
RECURSIVE UniqueDashes(_)
UniqueDashes(s) ==
    IF Len(s) < 2 THEN s
    ELSE IF s[1] = "-" /\ s[2] = "-" THEN UniqueDashes(Tail(s))
    ELSE <<s[1]>> \o UniqueDashes(Tail(s))

\* std::replace_if(.., isspace, ' ')
SpacesOnly(s) == [k \in 1 .. Len(s) |-> IF s[k] \in {"\t", "\n"} THEN " " ELSE s[k]]

\* rg::split(cl, " ="): every character of the second argument delimits
RECURSIVE SplitAny(_, _, _, _)
SplitAny(s, delims, k, tok) ==
    IF k > Len(s) THEN (IF tok = << >> THEN << >> ELSE <<tok>>)
    ELSE IF s[k] \in delims
         THEN (IF tok = << >> THEN << >> ELSE <<tok>>) \o SplitAny(s, delims, k + 1, << >>)
         ELSE SplitAny(s, delims, k + 1, Append(tok, s[k]))

tokenize_cl(s) == SplitAny(UniqueDashes(SpacesOnly(s)), {" ", "="}, 1, << >>)

\* std::find(sp.begin(), sp.end(), opt): the first index, Len(sp) + 1 for end
FindToken(sp, opt) ==
    IF \E k \in 1 .. Len(sp) : sp[k] = opt
    THEN CHOOSE k \in 1 .. Len(sp) : sp[k] = opt /\ \A j \in 1 .. (k - 1) : sp[j] # opt
    ELSE Len(sp) + 1

\* if (f != sp.end()) field = std::stoi(*++f); else field = dflt;
OptionOr(sp, opt, dflt) ==
    LET f == FindToken(sp, opt)
    IN IF f > Len(sp) THEN [err |-> "none", given |-> FALSE, val |-> dflt]
       ELSE IF f = Len(sp) THEN [err |-> "past_end"]
       ELSE LET n == stoi(sp[f + 1])
            IN IF n.err # "none" THEN n
               ELSE [err |-> "none", given |-> TRUE, val |-> AsUint8(n.digits)]

\* the first failure of the four options, in the order of the code
FirstError(a, b, o, e) ==
    IF a.err # "none" THEN a.err
    ELSE IF b.err # "none" THEN b.err
    ELSE IF o.err # "none" THEN o.err
    ELSE e.err

\* if (f != sp.end()) ret.read_gext = std::stoi(*++f); ret.read_gext = 1;
GapExtend(e) == IF e.given THEN 1 ELSE 1

\* ret = bwa_mem(cl).  Dereferencing sp.end() is undefined: the call faults,
\* or std::stoi reads no number there.
bwa_mem ==
    /\ cl_pc = "given"
    /\ LET sp == tokenize_cl(cl)
           a == OptionOr(sp, <<"-", "A">>, 1)
           b == OptionOr(sp, <<"-", "B">>, 4)
           o == OptionOr(sp, <<"-", "O">>, 6)
           e == OptionOr(sp, <<"-", "E">>, 1)
           err == FirstError(a, b, o, e)
       IN IF err = "none"
          THEN /\ ret' = [ end_to_end |-> FALSE, ambig |-> 0, match |-> a.val,
                           mismatch |-> b.val, read_gopen |-> o.val,
                           read_gext |-> GapExtend(e),
                           ref_gopen |-> o.val, ref_gext |-> GapExtend(e) ]
               /\ cl_pc' = "returned"
          ELSE /\ ret' = ret
               /\ cl_pc' \in (IF err = "past_end" THEN {"trap", "invalid_argument"}
                              ELSE {err})
    /\ UNCHANGED <<cl, cl_opts>>
    /\ UNCHANGED <<ser_prof, ser_str, ser_recv, ser_pc, finVars, earlier>>
    /\ UNCHANGED <<profVars, argVars, walkVars, aligns, _targets_lower, _targets_upper,
                   num_groups, group, seed_map, seed, _max_score, _sub_score,
                   _target_subrange, _packaged_reads, pc, cells>>

\* " -A 2", " --A=2", ..., or nothing when the option is not given (v = 0)
OptionText(dash, name, sep, v) ==
    IF v = 0 THEN << >> ELSE <<" ">> \o dash \o <<name>> \o sep \o PutInt(v)

\* a bwa mem command line with the options opts, and an input file or, in
\* its place, a -E without a value
CommandLine(dash, sep, opts) ==
    <<"b", "w", "a", " ", "m", "e", "m">>
    \o OptionText(dash, "A", sep, opts.A) \o OptionText(dash, "B", sep, opts.B)
    \o OptionText(dash, "O", sep, opts.O) \o OptionText(dash, "E", sep, opts.E)
    \o (IF opts.last THEN <<" ">> \o dash \o <<"E">> ELSE <<" ", "r", ".", "f", "q">>)

\* the values of the options; 0 stands for an option that is not given
CommandOptions ==
    [ A : {0, 2, 13}, B : {0, 5}, O : {0, 7}, E : {0, 1, 2, 13}, last : BOOLEAN ]

InitC ==
    /\ Constructed(FALSE, 1, Profile(2, 2, 3, 1, 1))
    /\ read_group = Vec(<< >>)
    /\ targets = Vec(<< >>)
    /\ graph = << >>
    /\ ser_prof = "none" /\ ser_str = << >> /\ ser_recv = "none" /\ ser_pc = "none"
    /\ NotFinalizing
    /\ NoEarlierCall
    /\ cl_opts \in CommandOptions
    /\ \E dash \in {<<"-">>, <<"-", "-">>}, sep \in {<<" ">>, <<"=">>, <<"\t">>} :
          cl = CommandLine(dash, sep, cl_opts)
    /\ ret = "none"
    /\ cl_pc = "given"

NextC == bwa_mem

SpecC == InitC /\ [][NextC]_vars

Strands == {"fwd", "rev"}

FinalPositions == {0, 1, 5}

FinalTargets == {0, 1, 5, 7}

\* a Results of one entry with any earlier flag, and one target for it
InitF ==
    /\ Constructed(FALSE, 1, Profile(2, 2, 3, 1, 1))
    /\ read_group = Vec(<< >>)
    /\ targets = Vec(<< >>)
    /\ graph = << >>
    /\ ser_prof = "none" /\ ser_str = << >> /\ ser_recv = "none" /\ ser_pc = "none"
    /\ \E mp \in FinalPositions, sp \in FinalPositions, ms \in Strands, ss \in Strands,
          cf \in {0, 1, 2}, tol \in TolSet :
          fin_results = [ max_pos |-> Vec(<<mp>>), sub_pos |-> Vec(<<sp>>),
                          max_strand |-> Vec(<<ms>>), sub_strand |-> Vec(<<ss>>),
                          correct |-> Vec(<<cf>>), tol |-> tol ]
    /\ \E t \in FinalTargets, st \in Strands :
          fin_targets = Vec(<<[strand |-> st, pos |-> t]>>)
    /\ fin_pc = "built"
    /\ NoEarlierCall
    /\ NoCommandLine

NextF == finalize

SpecF == InitF /\ [][NextF]_vars

(***************************************************************************)
(* Vocabulary of the properties.                                           *)
(***************************************************************************)
\* the batch is being walked: the tracker state is that of the batch
InWalk == pc \in {"node", "cell", "copy"}

\* the batch whose cells the history holds has had its scores copied
Copied == pc \in {"group", "done"} /\ group >= 1

\* first result index of the batch the history belongs to
HistBeg == IF Copied THEN (group - 1) * Lanes ELSE group * Lanes

\* the lanes of that batch that hold a read
HistLanes == { i \in LaneIdx : HistBeg + i < NumReads }

\* the cells the tracker is to see: every row in local mode, the last row
\* in end-to-end mode
Reportable(cell) == IF END_TO_END THEN cell.row = _read_len ELSE cell.row \in 1 .. _read_len

ReportableCells == { k \in 1 .. Len(cells) : Reportable(cells[k]) }

SetMax(S) == CHOOSE x \in S : \A y \in S : y <= x

\* |pos - t| <= tol over the integers
Within(pos, t, tol) == pos - t <= tol /\ t - pos <= tol

Done == pc = "done"

(***************************************************************************)
(* C1: after the walk of a graph with a non-empty node, the max_score      *)
(* reported for a read is the maximum, over the reportable cells of its    *)
(* lane, of the stored cell value minus the bias.                          *)
(***************************************************************************)
C1_MaxScoreIsCellMax ==
    (Copied /\ ReportableCells # {}) =>
        \A i \in HistLanes :
            aligns.max_score[HistBeg + i] =
                SetMax({ cells[k].S[i] - _bias : k \in ReportableCells })

C1_Witness ==
    /\ Done
    /\ END_TO_END
    /\ Len(cells) >= 4
    /\ aligns.max_score[0] < 0
    /\ \E k \in 1 .. Len(cells) : ~Reportable(cells[k]) /\ cells[k].S[0] - _bias > aligns.max_score[0]

\* the reads whose results are returned
Returned == { k \in 0 .. (NumReads - 1) : Done }

\* a reportable cell of lane i of the last batch that holds the returned
\* max_score of read k, resp. a value below it
MaxCellAt(k, i, q) == Reportable(cells[q]) /\ cells[q].S[i] - _bias = aligns.max_score[k]

LowerCellAt(k, i, q) == Reportable(cells[q]) /\ cells[q].S[i] - _bias < aligns.max_score[k]

\* the lane of read k in its batch
LaneOf(k) == k % Lanes

(***************************************************************************)
(* C2 as stated: for a read with a nonzero target, correct = 1 if and only *)
(* if the returned max_pos lies within tol of the target.                  *)
(***************************************************************************)
C2_FlagOneIffMaxPosNear ==
    \A k \in Returned :
        targets[k] # 0 =>
            (aligns.correct[k] = 1 <=> Within(aligns.max_pos[k], targets[k], _prof.tol))

(***************************************************************************)
(* C2 amended: for a read with a nonzero target, correct = 1 only if some  *)
(* reportable cell of its lane holds the returned max_score at a position  *)
(* within tol of the target; max_pos itself is the last position at which  *)
(* the max score was seen and may lie anywhere.                            *)
(***************************************************************************)
C2_FlagOneHasMaxCellNear ==
    \A k \in Returned :
        (targets[k] # 0 /\ aligns.correct[k] = 1) =>
            \E q \in 1 .. Len(cells) :
                /\ MaxCellAt(k, LaneOf(k), q)
                /\ Within(cells[q].pos, targets[k], _prof.tol)

C2_Witness ==
    /\ Done
    /\ targets[0] # 0
    /\ aligns.correct[0] = 1
    /\ ~Within(aligns.max_pos[0], targets[0], _prof.tol)

(***************************************************************************)
(* C3 as stated: correct = 2 if and only if the returned max_pos is not    *)
(* within tol of the target while the returned sub_pos is.                 *)
(***************************************************************************)
C3_FlagTwoIffSubPosNear ==
    \A k \in Returned :
        aligns.correct[k] = 2 <=>
            (~Within(aligns.max_pos[k], targets[k], _prof.tol)
                /\ Within(aligns.sub_pos[k], targets[k], _prof.tol))

(***************************************************************************)
(* C3 amended: correct = 2 only if some reportable cell of the read's lane *)
(* at a position within tol of the target holds a value below the returned *)
(* max_score; correct is always 0, 1 or 2.  The returned max_pos and       *)
(* sub_pos are the last positions of their scores and do not decide it.    *)
(***************************************************************************)
C3_FlagTwoHasLowerCellNear ==
    \A k \in Returned :
        /\ aligns.correct[k] \in {0, 1, 2}
        /\ aligns.correct[k] = 2 =>
              \E q \in 1 .. Len(cells) :
                  /\ LowerCellAt(k, LaneOf(k), q)
                  /\ Within(cells[q].pos, targets[k], _prof.tol)

C3_Witness ==
    /\ Done
    /\ aligns.correct[0] = 2
    /\ aligns.sub_count[0] >= 1
    /\ ~Within(aligns.sub_pos[0], targets[0], _prof.tol)

(***************************************************************************)
(* C4: whenever a lane's sub_score is above its initial value, its max_pos *)
(* and sub_pos differ by more than the read length, during the walk and in *)
(* the returned results.                                                   *)
(***************************************************************************)
C4_PositionsApart ==
    /\ InWalk =>
          \A i \in HistLanes :
              _sub_score[i] > NativeMin =>
                  ~Within(aligns.max_pos[HistBeg + i], aligns.sub_pos[HistBeg + i], _read_len)
    /\ \A k \in Returned :
          aligns.sub_score[k] > NativeMin - _bias =>
              ~Within(aligns.max_pos[k], aligns.sub_pos[k], _read_len)

C6_SubAtMostMax ==
    /\ InWalk => \A i \in LaneIdx : _sub_score[i] <= _max_score[i]
    /\ \A k \in Returned : aligns.sub_score[k] <= aligns.max_score[k]

C6_Witness ==
    /\ Done
    /\ aligns.sub_score[0] > NativeMin - _bias
    /\ aligns.sub_score[0] < aligns.max_score[0]
    /\ aligns.sub_count[0] >= 1

\* the predecessors of node n, and those the seed store holds
Preds(n) == { n.incoming[k] : k \in 1 .. Len(n.incoming) }

\* the walk stands before a node that is not the first and takes it
TakesLaterNode == pc = "node" /\ gi > 1 /\ pc' # "error"

\* the lanewise maximum of row i of column col over the stored seeds of ids
PredMax(ids, col, i) == [lane \in LaneIdx |-> SetMax({ seed_map[id][col][i][lane] : id \in ids })]

(***************************************************************************)
(* C7: the seed handed to the filler of a non-first node with predecessors *)
(* has, in each row 1..L, S_col and I_col equal to the lanewise maximum of *)
(* the stored S_col and I_col of that node's predecessors, in both modes.  *)
(***************************************************************************)
C7_SeedIsPredMax ==
    [][ (TakesLaterNode /\ Preds(graph[gi]) # {}) =>
            \A i \in 1 .. _read_len :
                /\ seed'.S_col[i] = PredMax(Preds(graph[gi]), "S_col", i)
                /\ seed'.I_col[i] = PredMax(Preds(graph[gi]), "I_col", i) ]_vars

LastFilled == IF pc = "copy" THEN gi ELSE gi - 1

BetweenNodes == pc = "copy" \/ (pc = "node" /\ gi >= 2)

(***************************************************************************)
(* C9: at a pinched node the incoming seed is merged from the predecessors *)
(* while the store still holds them, the store is emptied then, and once   *)
(* the node is filled the store holds that node's outgoing seed and no     *)
(* other entry; at a non-pinched node the earlier entries stay and the     *)
(* node's entry is added.                                                  *)
(***************************************************************************)
C9_PinchedClearsAfterMerge ==
    /\ [][ TakesLaterNode =>
             LET n == graph[gi]
             IN /\ Preds(n) # {} =>
                     \A i \in 1 .. _read_len :
                         seed'.S_col[i] = VMax(Splat(_bias), PredMax(Preds(n), "S_col", i))
                /\ n.id \in DOMAIN seed_map'
                /\ n.pinched => DOMAIN seed_map' = {n.id}
                /\ ~n.pinched =>
                     \A k \in DOMAIN seed_map \ {n.id} :
                         k \in DOMAIN seed_map' /\ seed_map'[k] = seed_map[k] ]_vars
    /\ [][ (pc = "node" /\ gi > 1 /\ Preds(graph[gi]) \subseteq DOMAIN seed_map)
               => pc' # "error" ]_vars
    /\ [](BetweenNodes /\ LastFilled > 1 /\ graph[LastFilled].pinched =>
             /\ DOMAIN seed_map = {graph[LastFilled].id}
             /\ seed_map[graph[LastFilled].id] =
                   IF Len(graph[LastFilled].seq) = 0 THEN seed
                   ELSE [S_col |-> _S, I_col |-> _Ic])

C9_Witness ==
    /\ BetweenNodes
    /\ LastFilled = 3
    /\ graph[3].pinched
    /\ ~graph[2].pinched
    /\ Len(graph[3].incoming) = 2
    /\ DOMAIN seed_map = {graph[3].id}

\* everything the call returns for read k
ResultOf(k) ==
    << aligns.max_score[k], aligns.max_pos[k], aligns.max_count[k],
       aligns.sub_score[k], aligns.sub_pos[k], aligns.sub_count[k],
       aligns.correct[k], aligns.target_score[k] >>

SameInput(j, k) == read_group[j] = read_group[k] /\ targets[j] = targets[k]

(***************************************************************************)
(* C10: what a call returns for a read depends on that read and its target *)
(* alone: two reads of one call with the same content and target get the   *)
(* same results, whichever lane and batch each sits in and whatever shares *)
(* its batch, another read or the N padding of an unfilled lane.           *)
(***************************************************************************)
C10_ResultsOwnReadOnly ==
    \A j, k \in Returned : SameInput(j, k) => ResultOf(j) = ResultOf(k)

C10_Witness ==
    /\ Done
    /\ NumReads > Lanes
    /\ SameInput(0, Lanes)
    /\ ~SameInput(0, 1)
    /\ ResultOf(0) # ResultOf(1)
    /\ aligns.correct[0] = 2

\* the reportable cells of the batch in the columns at position p
CellsAt(p) == { q \in ReportableCells : cells[q].pos = p }

(***************************************************************************)
(* C11: for a read whose nonzero target is a position of the walk,         *)
(* target_score is the maximum of cell value minus bias over the eligible  *)
(* rows of the columns at exactly that position, and it is stored at the   *)
(* read's own index whatever the targets of the other reads of the batch.  *)
(***************************************************************************)
C11_TargetScoreIsColumnMax ==
    Copied =>
        \A i \in HistLanes :
            (targets[HistBeg + i] # 0 /\ CellsAt(targets[HistBeg + i]) # {}) =>
                aligns.target_score[HistBeg + i] =
                    SetMax({ cells[q].S[i] - _bias : q \in CellsAt(targets[HistBeg + i]) })

C11_Witness ==
    /\ Copied
    /\ group = 1
    /\ targets[0] > targets[1]
    /\ CellsAt(targets[0]) # {}
    /\ CellsAt(targets[1]) # {}
    /\ aligns.target_score[0] # aligns.target_score[1]
    /\ aligns.target_score[0] < aligns.max_score[0]

C13_NoTargetNoFlag ==
    (InWalk \/ Copied) =>
        \A i \in HistLanes : targets[HistBeg + i] = 0 => aligns.correct[HistBeg + i] = 0

(***************************************************************************)
(* C14: an aligner that was constructed, or whose set_scores returned,     *)
(* has a lane type that represents the worst-case score range of its read  *)
(* length and profile: otherwise the call failed.  The worst case is the   *)
(* one _get_bias computes: all matches at the top, and in end-to-end mode  *)
(* all mismatches or one gap over the whole read at the bottom.            *)
(***************************************************************************)
NativeRange == NativeMax - NativeMin

score_max(len, prof) == len * prof.match

score_min(ete, len, prof) ==
    IF ~ete THEN 0
    ELSE - SetMax({ len * prof.mismatch, prof.read_gopen + prof.read_gext * (len - 1) })

Unrepresentable(ete, len, prof) == score_max(len, prof) - score_min(ete, len, prof) > NativeRange

C14_UnrepresentableFails ==
    pc = "idle" => ~Unrepresentable(END_TO_END, _read_len, _prof)

\* C14, amended: the call fails exactly when read length times match exceeds
\* the range of the lane type, in both modes; mismatch and gap penalties
\* never make it fail.
C14_MatchRangeFails ==
    /\ pc = "idle" => score_max(_read_len, _prof) <= NativeRange
    /\ pc = "domain_error" => score_max(_read_len, _prof) > NativeRange

C14_Witness ==
    /\ pc = "domain_error"
    /\ END_TO_END
    /\ score_max(_read_len, _prof) > NativeRange

\* the reportable cells of lane i, in the order they were filled, that hold
\* the max_score returned for read k
MaxCells(k, i) == { q \in ReportableCells : MaxCellAt(k, i, q) }

(***************************************************************************)
(* C15: once a batch is copied, the max_pos of each of its reads is the    *)
(* position of the last cell, in the order of the walk, whose value is the *)
(* read's final max_score.                                                 *)
(***************************************************************************)
C15_MaxPosIsLastMaxCell ==
    Copied =>
        \A i \in HistLanes :
            MaxCells(HistBeg + i, i) # {} =>
                aligns.max_pos[HistBeg + i] = cells[SetMax(MaxCells(HistBeg + i, i))].pos

C15_Witness ==
    /\ Done
    /\ \E q1, q2 \in MaxCells(0, 0) : cells[q1].pos < cells[q2].pos
    /\ aligns.max_score[0] > 0
    /\ aligns.max_pos[0] = cells[SetMax(MaxCells(0, 0))].pos

\* ceil(n / N)
CeilDiv(n, d) == (n + d - 1) \div d

\* the reads of the batch being walked sit in the lanes: read k in lane
\* k mod N of batch k div N
LanesHoldBatch ==
    \A k \in 0 .. (NumReads - 1) :
        k \div Lanes = group =>
            \A p \in 0 .. (_read_len - 1) :
                _packaged_reads[p][k % Lanes] = read_group[k][p + 1]

\* the entries of the results outside the batch being walked stay as they are
OtherEntriesKept ==
    \A f \in ResultFields :
        \A k \in 0 .. (NumReads - 1) :
            k \div Lanes # group => aligns'[f][k] = aligns[f][k]

(***************************************************************************)
(* C16: a call with n >= 1 reads takes ceil(n / N) batches; read k is      *)
(* walked once, as lane k mod N of batch k div N, and only the entries of  *)
(* the batch being walked are written; the returned results have n         *)
(* entries, entry k taken from the lane of read k.                         *)
(***************************************************************************)
C16_BatchesCoverReadsOnce ==
    /\ [](pc # "idle" => num_groups = CeilDiv(NumReads, Lanes))
    /\ [](InWalk => group < num_groups /\ LanesHoldBatch)
    /\ [](Done => /\ group = num_groups
                  /\ \A f \in ResultFields : DOMAIN aligns[f] = 0 .. (NumReads - 1))
    /\ [][ /\ group' # group => (pc = "copy" /\ group' = group + 1)
           /\ pc \in {"node", "cell"} => OtherEntriesKept
           /\ (pc = "copy" /\ pc' \in {"group", "done"}) =>
                 /\ OtherEntriesKept
                 /\ \A k \in 0 .. (NumReads - 1) :
                       k \div Lanes = group =>
                           aligns'.max_score[k] = _max_score[k % Lanes] - _bias ]_vars

C16_Witness ==
    /\ Done
    /\ NumReads = Lanes + 1
    /\ group = 2
    /\ read_group[Lanes] # read_group[0]
    /\ aligns.max_score[Lanes] # aligns.max_score[0]
    /\ aligns.max_score[Lanes] # aligns.max_score[1]

(***************************************************************************)
(* Alignments, as the scoring scheme defines them: a string of columns     *)
(* that pair a read base with a reference base ("M"), leave a read base    *)
(* without a reference base ("I", a gap in the reference) or a reference   *)
(* base without a read base ("D", a gap in the read).  A run of k gap      *)
(* columns costs gopen + k * gext.                                         *)
(***************************************************************************)
AlignOps(n) == [1 .. n -> {"M", "I", "D"}]

ReadUsed(ops) == Cardinality({ k \in DOMAIN ops : ops[k] \in {"M", "I"} })

RefUsed(ops) == Cardinality({ k \in DOMAIN ops : ops[k] \in {"M", "D"} })

BaseScore(rb, fb) ==
    IF rb = Base_N \/ fb = Base_N THEN - _prof.ambig
    ELSE IF rb = fb THEN _prof.match ELSE - _prof.mismatch

\* the score of columns k.. of ops, the read at base i and the reference at j
RECURSIVE OpsScore(_, _, _, _, _, _)
OpsScore(ops, k, rd, i, rf, j) ==
    IF k > Len(ops) THEN 0
    ELSE LET run == k > 1 /\ ops[k - 1] = ops[k]
         IN CASE ops[k] = "M" ->
                     BaseScore(rd[i], rf[j]) + OpsScore(ops, k + 1, rd, i + 1, rf, j + 1)
              [] ops[k] = "I" ->
                     - (IF run THEN _prof.ref_gext ELSE _prof.ref_gopen + _prof.ref_gext)
                     + OpsScore(ops, k + 1, rd, i + 1, rf, j)
              [] ops[k] = "D" ->
                     - (IF run THEN _prof.read_gext ELSE _prof.read_gopen + _prof.read_gext)
                     + OpsScore(ops, k + 1, rd, i, rf, j + 1)

\* the scores of the alignments of all of rd against a stretch of rf
AlignScores(rd, rf) ==
    { OpsScore(x[1], 1, rd, 1, rf, x[2]) :
        x \in { y \in (UNION { AlignOps(n) : n \in 1 .. (Len(rd) + Len(rf)) })
                         \X (1 .. (Len(rf) + 1)) :
                    /\ ReadUsed(y[1]) = Len(rd)
                    /\ y[2] + RefUsed(y[1]) - 1 <= Len(rf) } }

\* the best alignment of the whole read
WholeOpt(rd, rf) == SetMax(AlignScores(rd, rf))

\* the best alignment of any stretch of the read; the empty one scores 0
LocalOpt(rd, rf) ==
    SetMax({0} \cup UNION { AlignScores(SubSeq(rd, a, b), rf) :
                              a \in 1 .. Len(rd), b \in 1 .. Len(rd) })

\* the reference strings of the paths of the graph that end in node k
RECURSIVE PathsTo(_)
PathsTo(k) ==
    LET n == graph[k]
    IN IF n.incoming = << >> THEN { n.seq }
       ELSE UNION { { pre \o n.seq : pre \in PathsTo(id + 1) } : id \in Preds(n) }

PathStrings == UNION { PathsTo(k) : k \in 1 .. Len(graph) }

GraphWholeOpt(rd) == SetMax(UNION { AlignScores(rd, rf) : rf \in PathStrings })

GraphLocalOpt(rd) == SetMax({ LocalOpt(rd, rf) : rf \in PathStrings })

\* an optimal local alignment of the read covers the whole read
OptimalIsWhole(rd) == GraphWholeOpt(rd) = GraphLocalOpt(rd)

(***************************************************************************)
(* C17: when an optimal local alignment of the read covers the whole read, *)
(* the local and the end-to-end aligner both report its score as the       *)
(* max_score, and so report the same.                                      *)
(***************************************************************************)
C17_ModesAgreeOnWholeRead ==
    Done =>
        \A k \in 0 .. (NumReads - 1) :
            OptimalIsWhole(read_group[k]) => aligns.max_score[k] = GraphLocalOpt(read_group[k])

C17_Witness ==
    /\ Done
    /\ END_TO_END
    /\ _read_len = 2
    /\ Len(graph) > 1
    /\ OptimalIsWhole(read_group[0])
    /\ aligns.max_score[0] = 2 * _prof.match

\* the walk stands before a node without bases and takes it
TakesEmptyNode == pc = "node" /\ Len(graph[gi].seq) = 0 /\ pc' # "error"

(***************************************************************************)
(* C18: the step that takes a node without bases stores, as that node's    *)
(* outgoing seed, the merged seed it was handed, fills no cell, and leaves *)
(* the results, the running max and sub scores and the target scores of    *)
(* every lane as they were.                                                *)
(***************************************************************************)
C18_EmptyNodePassesSeed ==
    [][ TakesEmptyNode =>
            /\ seed_map'[graph[gi].id] = seed'
            /\ gi > 1 => seed' = _get_seed(graph[gi].incoming, MergeSource(graph[gi]))
            /\ cells' = cells
            /\ aligns' = aligns
            /\ _max_score' = _max_score
            /\ _sub_score' = _sub_score
            /\ _target_subrange' = _target_subrange ]_vars

C18_Witness ==
    /\ BetweenNodes
    /\ Len(graph[LastFilled].seq) = 0
    /\ graph[LastFilled].id \in DOMAIN seed_map
    /\ seed_map[graph[LastFilled].id] = seed
    /\ seed # _seed_matrix
    /\ cells # << >>

\* from_string has returned or thrown
FromStringEnded == ser_pc \in {"parsed", "out_of_range", "invalid_argument"}

(***************************************************************************)
(* C19: parsing the string to_string gives for a profile leaves the        *)
(* receiving profile equal to it in all nine fields, whatever it held      *)
(* before.                                                                 *)
(***************************************************************************)
C19_RoundTrip ==
    FromStringEnded => (ser_pc = "parsed" /\ ser_recv = ser_prof)

\* the positions the columns of the graph are reported at when column c of
\* a node is reported at end_pos - size + off + c
ColumnPositions(off) ==
    UNION { { graph[k].end_pos - Len(graph[k].seq) + off + col :
                col \in 0 .. (Len(graph[k].seq) - 1) } : k \in 1 .. Len(graph) }

\* every cell of column c of the node being filled is reported at
\* end_pos - size + off + c, and the returned max_pos is such a position
ReportedAt(off) ==
    /\ pc = "cell" => curr_pos = graph[gi].end_pos - Len(graph[gi].seq) + off + c
    /\ Copied => \A i \in HistLanes : aligns.max_pos[HistBeg + i] \in ColumnPositions(off)

FinishStep == pc = "cell" /\ (END_TO_END => r + 1 = _read_len)

FinishedCell(i) == _S'[r + 1][i]

TrackerBefore(i) == LaneState(aligns, _max_score, _sub_score, i)

TrackerAfter(i) == LaneState(aligns', _max_score', _sub_score', i)

\* the cell exceeds the max score of lane i away from its max position
RaisesFar(i) ==
    /\ FinishStep
    /\ FinishedCell(i) > TrackerBefore(i).ms
    /\ curr_pos > TrackerBefore(i).mp + _read_len

LowerNear(i) ==
    /\ FinishStep
    /\ FinishedCell(i) < TrackerBefore(i).ms
    /\ curr_pos <= TrackerBefore(i).mp + _read_len

(***************************************************************************)
(* C22: a cell below a lane's max score at a position of at most           *)
(* max_pos + L leaves the tracker of the lane as it was: max and sub       *)
(* score, position and count, and the correct flag.                        *)
(***************************************************************************)
C22_LowerNearKeepsTracker ==
    [][ \A i \in LaneIdx : LowerNear(i) => TrackerAfter(i) = TrackerBefore(i) ]_vars

C22_Witness ==
    /\ Done
    /\ aligns.sub_count[0] = 0
    /\ \E q1, q2 \in ReportableCells :
          /\ q1 < q2
          /\ MaxCellAt(0, 0, q1)
          /\ cells[q2].S[0] < cells[q1].S[0]
          /\ cells[q2].S[0] > NativeMin
          /\ cells[q2].pos > cells[q1].pos
          /\ cells[q2].pos <= cells[q1].pos + _read_len

\* the integers the lane constants stand for
ExactConstants(prof) ==
    [ _match_vec               |-> prof.match,
      _mismatch_vec            |-> - prof.mismatch,
      _gap_open_extend_vec_rd  |-> prof.read_gopen + prof.read_gext,
      _gap_extend_vec_rd       |-> prof.read_gext,
      _gap_open_extend_vec_ref |-> prof.ref_gopen + prof.ref_gext,
      _gap_extend_vec_ref      |-> prof.ref_gext,
      _ambig_vec               |-> - prof.ambig ]

(***************************************************************************)
(* C25: in an aligner that was constructed, or whose set_scores returned,  *)
(* the lane constants are the integers +match, -mismatch, -ambig,          *)
(* gopen + gext and gext of its profile: none has wrapped in the lane type.*)
(***************************************************************************)
C25_ConstantsExact ==
    pc = "idle" => _vec = ExactConstants(_prof)

\* what the scoring scheme adds on the diagonal for a read and a reference base
DiagonalScore(rb, fb) ==
    IF fb = Base_N \/ rb = Base_N THEN - _prof.ambig
    ELSE IF rb = fb THEN _prof.match
    ELSE - _prof.mismatch

(***************************************************************************)
(* C23: every cell is the maximum of its I term, its D term and the        *)
(* diagonal plus -ambig when the read or the reference base is N, +match   *)
(* when the bases are equal and not N, -mismatch otherwise (saturating).   *)
(***************************************************************************)
C23_DiagonalTerm ==
    [][ pc = "cell" =>
            \A i \in LaneIdx :
                _S'[r + 1][i] =
                    SetMax({ _Ic'[r + 1][i], _Dc'[r + 1][i],
                             Sat(_Sd[i] + DiagonalScore(_packaged_reads[r][i],
                                                        graph[gi].seq[c + 1])) }) ]_vars

\* the cell ties or raises the max score of lane i
TiesMax(i) == FinishStep /\ FinishedCell(i) = TrackerBefore(i).ms

RaisesMax(i) == FinishStep /\ FinishedCell(i) > TrackerBefore(i).ms

\* the lanes of the batch being walked whose read has a target
TargetLanes == { i \in LaneIdx : beg_offset + i < NumReads /\ targets[beg_offset + i] # 0 }

\* the cell of lane i lies within the tolerance of the lane's target
NearTarget(i) == Within(curr_pos, targets[beg_offset + i], _prof.tol)

(***************************************************************************)
(* C24: for a read with a target, a cell that ties or raises the max score *)
(* sets the correct flag to 1 exactly when its position p has              *)
(* t - tol <= p <= t + tol over the integers, also when t < tol: inside    *)
(* the window the flag is 1 after the cell; outside it a tie leaves the    *)
(* flag and a raise leaves no flag 1.                                      *)
(***************************************************************************)
C24_FlagOneInIntegerWindow ==
    [][ \A i \in TargetLanes :
            /\ ((TiesMax(i) \/ RaisesMax(i)) /\ NearTarget(i)) => TrackerAfter(i).cf = 1
            /\ (TiesMax(i) /\ ~NearTarget(i)) => TrackerAfter(i).cf = TrackerBefore(i).cf
            /\ (RaisesMax(i) /\ ~NearTarget(i)) => TrackerAfter(i).cf # 1 ]_vars

\* the flag the positions of entry i call for, over the integers
IntegerFlag(res, tgt, i) ==
    IF /\ tgt[i].pos # 0
       /\ Within(tgt[i].pos, res.max_pos[i], res.tol)
       /\ tgt[i].strand = res.max_strand[i]
    THEN 1
    ELSE IF /\ tgt[i].pos # 0
            /\ Within(tgt[i].pos, res.sub_pos[i], res.tol)
            /\ tgt[i].strand = res.sub_strand[i]
         THEN 2
    ELSE 0

(***************************************************************************)
(* C26: after finalize, correct[i] is 1 when target i is nonzero, within   *)
(* tol of max_pos[i] and on its strand; else 2 when it is nonzero, within  *)
(* tol of sub_pos[i] and on its strand; else 0: for all positions, also    *)
(* those smaller than tol.                                                 *)
(***************************************************************************)
C26_FinalizeFlags ==
    fin_pc = "finalized" =>
        \A i \in DOMAIN fin_results.correct :
            fin_results.correct[i] = IntegerFlag(fin_results, fin_targets, i)

SecondCallDone(record) == pc = "done" /\ earlier.record = record

(***************************************************************************)
(* C27: for the same reads, targets, graph and profile align_into writes   *)
(* the same results into a Results reused from an earlier align_into as it *)
(* wrote into a fresh one.                                                 *)
(***************************************************************************)
C27_SameResultsWhenReused == SecondCallDone("reused") => aligns = earlier.results

\* the same aligner writes the same results into a second fresh Results
C27_SameResultsWhenFresh == SecondCallDone("fresh") => aligns = earlier.results

\* a step in which set_scores throws std::domain_error
SetScoresFails == pc = "idle" /\ pc' = "domain_error"

(***************************************************************************)
(* C28: when set_scores fails with the insufficient-precision error, the   *)
(* aligner's stored profile (its tolerance included), lane constants and   *)
(* bias are what they were before the call.                                *)
(***************************************************************************)
C28_FailedSetScoresKeepsAligner ==
    [][ SetScoresFails => /\ _prof' = _prof
                          /\ _vec' = _vec
                          /\ _bias' = _bias
                          /\ _Dc' = _Dc ]_vars

\* the bias and the seed of the deletion column are kept
C28_FailedSetScoresKeepsBias ==
    [][ SetScoresFails => (_bias' = _bias /\ _Dc' = _Dc) ]_vars

EmptyReadList == NumReads = 0 /\ VecSize(targets) = 0

(***************************************************************************)
(* C29: align_into of an empty read list and an empty target list          *)
(* processes no batch, writes no lane state, and returns with a Results of *)
(* zero entries.                                                           *)
(***************************************************************************)
C29_EmptyReadListNoBatch ==
    EmptyReadList =>
        /\ pc \in {"idle", "done"}
        /\ pc = "done" => \A f \in ResultFields : VecSize(aligns[f]) = 0
        /\ cells = << >>

\* the command line has the option and a value after it
Given(v) == v # 0

WithValues == ~cl_opts.last

(***************************************************************************)
(* C30: bwa_mem(cl) returns a local-mode profile whose read_gext and       *)
(* ref_gext are the value following -E when the command line has one and  *)
(* 1 when it has none, just as match, mismatch and gap open are the values *)
(* following -A, -B and -O or 1, 4 and 6.                                  *)
(***************************************************************************)
C30_BwaMemOptions ==
    (cl_pc = "returned" /\ WithValues) =>
        /\ ret.end_to_end = FALSE
        /\ ret.match = (IF Given(cl_opts.A) THEN cl_opts.A ELSE 1)
        /\ ret.mismatch = (IF Given(cl_opts.B) THEN cl_opts.B ELSE 4)
        /\ ret.read_gopen = (IF Given(cl_opts.O) THEN cl_opts.O ELSE 6)
        /\ ret.read_gext = (IF Given(cl_opts.E) THEN cl_opts.E ELSE 1)
        /\ ret.ref_gext = (IF Given(cl_opts.E) THEN cl_opts.E ELSE 1)

\* match, mismatch and gap open are the values of -A, -B, -O or 1, 4, 6
C30_BwaMemOtherOptions ==
    (cl_pc = "returned" /\ WithValues) =>
        /\ ret.end_to_end = FALSE
        /\ ret.match = (IF Given(cl_opts.A) THEN cl_opts.A ELSE 1)
        /\ ret.mismatch = (IF Given(cl_opts.B) THEN cl_opts.B ELSE 4)
        /\ ret.read_gopen = (IF Given(cl_opts.O) THEN cl_opts.O ELSE 6)
        /\ ret.ref_gopen = ret.read_gopen
        /\ ret.read_gext = 1
        /\ ret.ref_gext = 1

====
